---- MODULE Spec2Model ----
(***************************************************************************)
(* nrekit/framework.py: the few-shot training harness.                     *)
(*                                                                         *)
(* Framework.train, Framework.eval and Framework.__load_model__ are        *)
(* modelled statement by statement for a set Procs of Python processes.    *)
(* Each process owns its model object and its call frames; the checkpoint  *)
(* files are the only state the processes share.                           *)
(*                                                                         *)
(* Accuracies are fractions.  A per-batch / per-episode accuracy a stands  *)
(* for a / AccScale; a quotient iter_right / iter_sample is kept as the    *)
(* pair [num, den] and compared by cross multiplication, so that           *)
(* `acc > best_acc' is the comparison of the two quotients.                *)
(***************************************************************************)
EXTENDS Integers, Sequences, FiniteSets, TLC

\* ------------------------------------------------------------------ bounds
MaxTrainIter == 2
MaxValStep == 2
MaxEvalIter == 2
MaxValIter == 1
MaxSavedIter == 0
AccScale == 1
MaxCalls == 2

\* ------------------------------------------------------------ the universe
Procs == {"A", "B"}

None == "None"

\* os.path.join(ckpt_dir, model_name + ".pth.tar"), and one more path a caller
\* may pass as pretrain_model or ckpt.
SavePath == "checkpoint/model.pth.tar"
OtherPath == "pretrain/other.pth.tar"
Paths == {SavePath, OtherPath}

\* Model parameters are named by the optimizer step that produced them:
\* <<process, call number, number of the iteration (it + 1)>>; <<p, 0, 0>> are
\* the parameters the model of p is constructed with.
InitParams(p) == <<p, 0, 0>>
ExtParams(i) == <<"ext", 0, i>>

\* Accuracies forward_new may leave in model._accuracy, in units of 1/AccScale.
Accs == 0..AccScale

\* What forward_base may leave in model._loss and model._accuracy.
TrainOutcomes == {[loss |-> 1, right |-> 0], [loss |-> 0, right |-> AccScale]}

\* ------------------------------------------------------------- quotients
Frac(n, d) == [num |-> n, den |-> d]

FracGt(a, b) == a.num * b.den > b.num * a.den

FracEq(a, b) == a.num * b.den = b.num * a.den

\* best_acc = 0 (line 135)
InitBestAcc == Frac(0, 1)

VARIABLES
    files,   \* path -> the objects serialized in the file, for the paths
             \* that name a file
    model,   \* p -> the model object: parameters, _loss, _accuracy, overrides
    op,      \* p -> the outermost call in progress: "idle", "train", "eval"
    pc,      \* p -> position in the code
    tr,      \* p -> arguments and locals of Framework.train
    ev,      \* p -> arguments and locals of Framework.eval
    out,     \* p -> how the outermost call ended: error raised, value returned
    log,     \* p -> history of the outermost call (observations only)
    hist     \* the checkpoint writes of all calls, in the order they were
             \* made: who wrote, which parameters, with which accuracy
             \* (observations only)

vars == <<files, model, op, pc, tr, ev, out, log, hist>>

\* ---------------------------------------------------------------- frames
NoTrain ==
    [train_iter |-> 0, val_iter |-> 0, val_step |-> 0, test_iter |-> 0,
     pretrain_model |-> None, start_iter |-> 0, it |-> 0,
     best_acc |-> InitBestAcc, iter_loss |-> 0, iter_right |-> 0,
     iter_sample |-> 0, loss |-> 0, right |-> 0, sched |-> 0,
     grad |-> "none", acc |-> InitBestAcc, test_acc |-> InitBestAcc]

NoEval ==
    [eval_iter |-> 0, ckpt |-> None, eval_dataset |-> None, it |-> 0,
     iter_right |-> 0, iter_sample |-> 0, caller |-> None]

NoOut == [err |-> None, ret |-> InitBestAcc, returned |-> FALSE]

NoLog ==
    [batches |-> 0, steps |-> 0, episodes |-> [val |-> 0, test |-> 0],
     refs |-> {}, fwd_new |-> 0, loads |-> 0, vals |-> <<>>, writes |-> 0,
     tests |-> 0, loaded |-> <<>>, resumed |-> <<>>, first_it |-> -1,
     rights |-> <<>>, calls |-> 0]

\* ------------------------------------------------- decisions of the code
\* os.path.isfile(ckpt) (line 66)
IsFile(fs, ckpt) == ckpt \in DOMAIN fs

\* Faulty variant: a missing file yields an empty checkpoint instead of the exception
load_model_lenient(fs, ckpt) ==
    IF IsFile(fs, ckpt)
    THEN [found |-> TRUE, checkpoint |-> Head(fs[ckpt])]
    ELSE [found |-> TRUE, checkpoint |-> [state_dict |-> <<"none", 0, 0>>]]

\* __load_model__ (lines 61-71): torch.load returns the first object
\* serialized in the file; without the file the exception of line 71.
load_model(fs, ckpt) ==
    IF IsFile(fs, ckpt)
    THEN [found |-> TRUE, checkpoint |-> Head(fs[ckpt])]
    ELSE [found |-> FALSE]

\* checkpoint['iter'] raises KeyError when the bundle has no such key (126)
HasIter(checkpoint) == "iter" \in DOMAIN checkpoint

\* start_iter = checkpoint['iter'] + 1 (line 126)
StartIter(checkpoint) == checkpoint.iter + 1

\* Faulty variant: the range with its end included
LoopContinuesInclusive(it, start_iter, train_iter) ==
    it <= start_iter + train_iter

\* for it in range(start_iter, start_iter + train_iter) (line 140)
LoopContinues(it, start_iter, train_iter) == it < start_iter + train_iter

\* if it % val_step == 0 (line 156)
ResetDue(it, val_step) == it % val_step = 0

\* Faulty variant: the validation step tested on it instead of it + 1
ValidationDueOffByOne(it, val_step) == it % val_step = 0

\* if (it + 1) % val_step == 0 (line 161)
ValidationDue(it, val_step) == (it + 1) % val_step = 0

\* Faulty variant: acc >= best_acc
IsBestOrEqual(acc, best_acc) == ~FracGt(best_acc, acc)

\* if acc > best_acc (line 164)
IsBest(acc, best_acc) == FracGt(acc, best_acc)

\* {'state_dict': model.state_dict()} (line 169)
SavedBundle(params, it) == [state_dict |-> params]

\* Faulty variant: the file opened for appending
SaveAppend(fs, path, bundle) ==
    [q \in DOMAIN fs \cup {path} |->
        IF q # path THEN fs[q]
        ELSE IF q \in DOMAIN fs THEN Append(fs[q], bundle) ELSE <<bundle>>]

\* torch.save(bundle, save_path) opens save_path for writing, which creates
\* or truncates it, and serializes the one bundle (line 169)
Save(fs, path, bundle) ==
    [q \in DOMAIN fs \cup {path} |-> IF q = path THEN <<bundle>> ELSE fs[q]]

\* Faulty variant: the validation loader whatever ckpt is
EvalDatasetVal(ckpt) == "val"

\* eval_dataset (lines 194-199)
EvalDataset(ckpt) == IF ckpt = None THEN "val" ELSE "test"

\* Faulty variant: the divisor one too large
EvalResultOffByOne(iter_right, iter_sample) == Frac(iter_right, iter_sample + 1)

\* return iter_right / iter_sample (line 213)
EvalResult(iter_right, iter_sample) == Frac(iter_right, iter_sample)

\* the loader passed to next_new_relation as reference (line 204)
ReferenceLoader == "train"

\* ------------------------------------------------------------- plumbing
Goto(p, l) == pc' = [pc EXCEPT ![p] = l]

\* An exception leaves every frame of p: the code has no handler.
Raise(p, e) ==
    /\ pc' = [pc EXCEPT ![p] = "failed"]
    /\ out' = [out EXCEPT ![p].err = e]

\* ------------------------------------------------------- Framework.train
\* A caller invokes train(model, model_name, ...) (line 82).
CallTrain(p, ti, vi, vs, te, pm) ==
    /\ op[p] = "idle"
    /\ log[p].calls < MaxCalls
    /\ op' = [op EXCEPT ![p] = "train"]
    /\ tr' = [tr EXCEPT ![p] = [NoTrain EXCEPT !.train_iter = ti,
                                  !.val_iter = vi, !.val_step = vs,
                                  !.test_iter = te, !.pretrain_model = pm]]
    /\ ev' = [ev EXCEPT ![p] = NoEval]
    /\ out' = [out EXCEPT ![p] = NoOut]
    /\ log' = [log EXCEPT ![p] = [NoLog EXCEPT !.calls = log[p].calls + 1]]
    /\ Goto(p, "t_init")
    /\ UNCHANGED <<files, hist, model>>

\* Lines 123-126 with pretrain_model given, then the locals of 135-139.
TrainResume(p) ==
    /\ pc[p] = "t_init"
    /\ tr[p].pretrain_model # None
    /\ LET loaded == load_model(files, tr[p].pretrain_model) IN
       IF ~loaded.found
       THEN /\ Raise(p, "NoCheckpoint")
            /\ log' = [log EXCEPT ![p].loads = @ + 1]
            /\ UNCHANGED <<model, tr>>
       ELSE /\ model' = [model EXCEPT
                           ![p].params = loaded.checkpoint.state_dict]
            /\ log' = [log EXCEPT ![p].loads = @ + 1,
                                  ![p].resumed = <<loaded.checkpoint>>]
            /\ IF ~HasIter(loaded.checkpoint)
               THEN /\ Raise(p, "KeyError")
                    /\ UNCHANGED tr
               ELSE /\ tr' = [tr EXCEPT
                                ![p].start_iter = StartIter(loaded.checkpoint),
                                ![p].it = StartIter(loaded.checkpoint)]
                    /\ Goto(p, "t_loop")
                    /\ UNCHANGED out
    /\ UNCHANGED <<files, hist, op, ev>>

\* Lines 127-128 without pretrain_model, then the locals of 135-139.
TrainFresh(p) ==
    /\ pc[p] = "t_init"
    /\ tr[p].pretrain_model = None
    /\ tr' = [tr EXCEPT ![p].start_iter = 0, ![p].it = 0]
    /\ Goto(p, "t_loop")
    /\ UNCHANGED <<files, hist, model, op, ev, out, log>>

\* Line 140: the next index of the range, or the end of the loop.
TrainLoop(p) ==
    /\ pc[p] = "t_loop"
    /\ IF LoopContinues(tr[p].it, tr[p].start_iter, tr[p].train_iter)
       THEN /\ Goto(p, "t_sched")
            /\ log' = [log EXCEPT ![p].first_it =
                          IF @ = -1 THEN tr[p].it ELSE @]
       ELSE /\ Goto(p, "t_finish")
            /\ UNCHANGED log
    /\ UNCHANGED <<files, hist, model, op, tr, ev, out>>

\* Line 141: scheduler.step()
TrainSchedulerStep(p) ==
    /\ pc[p] = "t_sched"
    /\ tr' = [tr EXCEPT ![p].sched = @ + 1]
    /\ Goto(p, "t_batch")
    /\ UNCHANGED <<files, hist, model, op, ev, out, log>>

\* Line 142: batch_data = self.train_data_loader.next_batch(batch_size)
TrainNextBatch(p) ==
    /\ pc[p] = "t_batch"
    /\ log' = [log EXCEPT ![p].batches = @ + 1]
    /\ Goto(p, "t_forward")
    /\ UNCHANGED <<files, hist, model, op, tr, ev, out>>

\* Faulty variant: a forward_base that returns whether or not it is overridden
TrainForwardBaseLenient(p) ==
    /\ pc[p] = "t_forward"
    /\ \E o \in TrainOutcomes :
         model' = [model EXCEPT ![p].loss = o.loss, ![p].accuracy = o.right]
    /\ Goto(p, "t_read")
    /\ UNCHANGED <<files, hist, op, tr, ev, out, log>>

\* Line 143: model.forward_base(batch_data); Model.forward_base raises (27).
TrainForwardBase(p) ==
    /\ pc[p] = "t_forward"
    /\ IF ~model[p].has_forward_base
       THEN /\ Raise(p, "NotImplementedError")
            /\ UNCHANGED model
       ELSE /\ \E o \in TrainOutcomes :
                 model' = [model EXCEPT ![p].loss = o.loss,
                                        ![p].accuracy = o.right]
            /\ Goto(p, "t_read")
            /\ UNCHANGED out
    /\ UNCHANGED <<files, hist, op, tr, ev, log>>

\* Lines 144-145: loss = model.loss(); right = model.accuracy()
TrainRead(p) ==
    /\ pc[p] = "t_read"
    /\ tr' = [tr EXCEPT ![p].loss = model[p].loss,
                        ![p].right = model[p].accuracy]
    /\ Goto(p, "t_zero")
    /\ UNCHANGED <<files, hist, model, op, ev, out, log>>

\* Line 146: optimizer.zero_grad()
TrainZeroGrad(p) ==
    /\ pc[p] = "t_zero"
    /\ tr' = [tr EXCEPT ![p].grad = "zero"]
    /\ Goto(p, "t_backward")
    /\ UNCHANGED <<files, hist, model, op, ev, out, log>>

\* Line 147: loss.backward()
TrainBackward(p) ==
    /\ pc[p] = "t_backward"
    /\ tr' = [tr EXCEPT ![p].grad = "computed"]
    /\ Goto(p, "t_step")
    /\ UNCHANGED <<files, hist, model, op, ev, out, log>>

\* Line 148: optimizer.step() gives the model new parameters.
TrainOptimizerStep(p) ==
    /\ pc[p] = "t_step"
    /\ model' = [model EXCEPT ![p].params = <<p, log[p].calls, tr[p].it + 1>>]
    /\ tr' = [tr EXCEPT ![p].grad = "applied"]
    /\ log' = [log EXCEPT ![p].steps = @ + 1]
    /\ Goto(p, "t_accum")
    /\ UNCHANGED <<files, hist, op, ev, out>>

\* Lines 150-154: the running sums and the progress line.
TrainAccumulate(p) ==
    /\ pc[p] = "t_accum"
    /\ tr' = [tr EXCEPT ![p].iter_loss = @ + tr[p].loss,
                        ![p].iter_right = @ + tr[p].right,
                        ![p].iter_sample = @ + 1]
    /\ Goto(p, "t_reset")
    /\ UNCHANGED <<files, hist, model, op, ev, out, log>>

\* Lines 156-159: it % val_step raises ZeroDivisionError for val_step = 0.
TrainReset(p) ==
    /\ pc[p] = "t_reset"
    /\ IF tr[p].val_step = 0
       THEN /\ Raise(p, "ZeroDivisionError")
            /\ UNCHANGED tr
       ELSE /\ tr' = IF ResetDue(tr[p].it, tr[p].val_step)
                     THEN [tr EXCEPT ![p].iter_loss = 0, ![p].iter_right = 0,
                                     ![p].iter_sample = 0]
                     ELSE tr
            /\ Goto(p, "t_valcheck")
            /\ UNCHANGED out
    /\ UNCHANGED <<files, hist, model, op, ev, log>>

\* Lines 161-162: the validation step calls self.eval(model, eval_iter=val_iter).
TrainValCheck(p) ==
    /\ pc[p] = "t_valcheck"
    /\ IF ValidationDue(tr[p].it, tr[p].val_step)
       THEN /\ ev' = [ev EXCEPT ![p] = [NoEval EXCEPT
                                          !.eval_iter = tr[p].val_iter,
                                          !.ckpt = None, !.caller = "val"]]
            /\ Goto(p, "e_select")
            /\ UNCHANGED tr
       ELSE /\ tr' = [tr EXCEPT ![p].it = @ + 1]
            /\ Goto(p, "t_loop")
            /\ UNCHANGED ev
    /\ UNCHANGED <<files, hist, model, op, out, log>>

\* Line 163: model.train()
TrainModelTrain(p) ==
    /\ pc[p] = "t_model_train"
    /\ Goto(p, "t_compare")
    /\ UNCHANGED <<files, hist, model, op, tr, ev, out, log>>

\* Lines 164-170: save the checkpoint when acc > best_acc.
TrainCheckpoint(p) ==
    /\ pc[p] = "t_compare"
    /\ IF IsBest(tr[p].acc, tr[p].best_acc)
       THEN /\ files' = Save(files, SavePath,
                             SavedBundle(model[p].params, tr[p].it))
            /\ tr' = [tr EXCEPT ![p].best_acc = tr[p].acc, ![p].it = @ + 1]
            /\ log' = [log EXCEPT ![p].writes = @ + 1,
                          ![p].vals[Len(log[p].vals)].wrote = TRUE]
            /\ hist' = Append(hist, [by |-> p, call |-> log[p].calls,
                                     params |-> model[p].params,
                                     acc |-> tr[p].acc])
       ELSE /\ tr' = [tr EXCEPT ![p].it = @ + 1]
            /\ UNCHANGED <<files, hist, log>>
    /\ Goto(p, "t_loop")
    /\ UNCHANGED <<model, op, ev, out>>

\* Lines 172-174: the final pass, self.eval(model, ckpt=save_path, eval_iter=test_iter)
TrainFinish(p) ==
    /\ pc[p] = "t_finish"
    /\ ev' = [ev EXCEPT ![p] = [NoEval EXCEPT !.eval_iter = tr[p].test_iter,
                                              !.ckpt = SavePath,
                                              !.caller = "test"]]
    /\ log' = [log EXCEPT ![p].tests = @ + 1]
    /\ Goto(p, "e_select")
    /\ UNCHANGED <<files, hist, model, op, tr, out>>

\* Line 175: print("Test accuracy: ..."), and train returns.
TrainReport(p) ==
    /\ pc[p] = "t_report"
    /\ out' = [out EXCEPT ![p].returned = TRUE, ![p].ret = tr[p].test_acc]
    /\ Goto(p, "done")
    /\ UNCHANGED <<files, hist, model, op, tr, ev, log>>

\* -------------------------------------------------------- Framework.eval
\* A caller invokes eval(model, eval_iter=..., ckpt=...) directly (line 177).
CallEval(p, ei, ck) ==
    /\ op[p] = "idle"
    /\ log[p].calls < MaxCalls
    /\ op' = [op EXCEPT ![p] = "eval"]
    /\ tr' = [tr EXCEPT ![p] = NoTrain]
    /\ ev' = [ev EXCEPT ![p] = [NoEval EXCEPT !.eval_iter = ei, !.ckpt = ck,
                                              !.caller = "top"]]
    /\ out' = [out EXCEPT ![p] = NoOut]
    /\ log' = [log EXCEPT ![p] = [NoLog EXCEPT !.calls = log[p].calls + 1]]
    /\ Goto(p, "e_select")
    /\ UNCHANGED <<files, hist, model>>

\* Lines 194-202: choose the loader; with ckpt, __load_model__ (61-71) and
\* model.load_state_dict(checkpoint['state_dict']).
EvalSelect(p) ==
    /\ pc[p] = "e_select"
    /\ IF ev[p].ckpt = None
       THEN /\ ev' = [ev EXCEPT ![p].eval_dataset = EvalDataset(ev[p].ckpt)]
            /\ Goto(p, "e_loop")
            /\ UNCHANGED <<model, out, log>>
       ELSE LET loaded == load_model(files, ev[p].ckpt) IN
            IF ~loaded.found
            THEN /\ Raise(p, "NoCheckpoint")
                 /\ log' = [log EXCEPT ![p].loads = @ + 1]
                 /\ UNCHANGED <<model, ev>>
            ELSE /\ model' = [model EXCEPT
                                ![p].params = loaded.checkpoint.state_dict]
                 /\ ev' = [ev EXCEPT
                             ![p].eval_dataset = EvalDataset(ev[p].ckpt)]
                 /\ log' = [log EXCEPT ![p].loads = @ + 1,
                                       ![p].loaded = <<loaded.checkpoint>>]
                 /\ Goto(p, "e_loop")
                 /\ UNCHANGED out
    /\ UNCHANGED <<files, hist, op, tr>>

\* Line 203: for it in range(eval_iter)
EvalLoop(p) ==
    /\ pc[p] = "e_loop"
    /\ IF ev[p].it < ev[p].eval_iter
       THEN Goto(p, "e_draw")
       ELSE Goto(p, "e_return")
    /\ UNCHANGED <<files, hist, model, op, tr, ev, out, log>>

\* Line 204: eval_dataset.next_new_relation(self.train_data_loader, ...)
EvalNextRelation(p) ==
    /\ pc[p] = "e_draw"
    /\ log' = [log EXCEPT ![p].episodes[ev[p].eval_dataset] = @ + 1,
                          ![p].refs = @ \cup {ReferenceLoader}]
    /\ Goto(p, "e_forward")
    /\ UNCHANGED <<files, hist, model, op, tr, ev, out>>

\* Line 205: model.forward_new((support, query)); Model.forward_new raises (30).
EvalForwardNew(p) ==
    /\ pc[p] = "e_forward"
    /\ IF ~model[p].has_forward_new
       THEN /\ Raise(p, "NotImplementedError")
            /\ UNCHANGED <<model, log>>
       ELSE /\ \E a \in Accs : model' = [model EXCEPT ![p].accuracy = a]
            /\ log' = [log EXCEPT ![p].fwd_new = @ + 1]
            /\ Goto(p, "e_accum")
            /\ UNCHANGED out
    /\ UNCHANGED <<files, hist, op, tr, ev>>

\* Lines 206-211: right = model.accuracy(); the running sums; the progress line.
EvalAccumulate(p) ==
    /\ pc[p] = "e_accum"
    /\ ev' = [ev EXCEPT ![p].iter_right = @ + model[p].accuracy,
                        ![p].iter_sample = @ + 1,
                        ![p].it = @ + 1]
    /\ log' = [log EXCEPT ![p].rights =
                  IF ev[p].caller = "top" THEN Append(@, model[p].accuracy)
                  ELSE @]
    /\ Goto(p, "e_loop")
    /\ UNCHANGED <<files, hist, model, op, tr, out>>

\* Line 213: return iter_right / iter_sample, to whoever called eval: a direct
\* caller, line 162 (acc = ...) or line 174 (test_acc = ...).  The division
\* raises ZeroDivisionError when no episode was run.
EvalReturn(p) ==
    /\ pc[p] = "e_return"
    /\ IF ev[p].iter_sample = 0
       THEN /\ Raise(p, "ZeroDivisionError")
            /\ UNCHANGED <<tr, ev, log>>
       ELSE LET res == EvalResult(ev[p].iter_right, ev[p].iter_sample) IN
            /\ ev' = IF ev[p].caller = "top" THEN ev
                      ELSE [ev EXCEPT ![p] = NoEval]
            /\ CASE ev[p].caller = "top" ->
                      /\ out' = [out EXCEPT ![p].returned = TRUE,
                                            ![p].ret = res]
                      /\ Goto(p, "done")
                      /\ UNCHANGED <<tr, log>>
                 [] ev[p].caller = "val" ->
                      /\ tr' = [tr EXCEPT ![p].acc = res]
                      /\ log' = [log EXCEPT
                                    ![p].vals = Append(@,
                                      [it |-> tr[p].it, acc |-> res,
                                       wrote |-> FALSE,
                                       params |-> model[p].params])]
                      /\ Goto(p, "t_model_train")
                      /\ UNCHANGED out
                 [] OTHER ->
                      /\ tr' = [tr EXCEPT ![p].test_acc = res]
                      /\ Goto(p, "t_report")
                      /\ UNCHANGED <<out, log>>
    /\ UNCHANGED <<files, hist, model, op>>

\* ------------------------------------------------------------ the system
\* The checkpoint files a run may find: at the save path nothing or the
\* bundle an earlier train run left there, at the other path nothing or a
\* bundle that carries 'iter'.
SaveFiles ==
    {<<>>} \cup {[q \in {SavePath} |-> <<SavedBundle(<<"old", 0, 1>>, 0)>>]}

OtherFiles ==
    {<<>>} \cup {[q \in {OtherPath} |->
                    <<[state_dict |-> ExtParams(i), iter |-> i]>>] :
                 i \in 0..MaxSavedIter}

FileSystems == {f @@ g : f \in SaveFiles, g \in OtherFiles}

\* Model(sentence_encoder) (lines 14-24), subclassed with or without the
\* forward methods.
NewModel(p, fb, fn) ==
    [params |-> InitParams(p), loss |-> 0, accuracy |-> 0,
     has_forward_base |-> fb, has_forward_new |-> fn]

InitWith(fs, fb, fn) ==
    /\ files = fs
    /\ model = [p \in Procs |-> NewModel(p, fb, fn)]
    /\ op = [p \in Procs |-> "idle"]
    /\ pc = [p \in Procs |-> "idle"]
    /\ tr = [p \in Procs |-> NoTrain]
    /\ ev = [p \in Procs |-> NoEval]
    /\ out = [p \in Procs |-> NoOut]
    /\ log = [p \in Procs |-> NoLog]
    /\ hist = <<>>

Init == \E fs \in FileSystems, fb \in BOOLEAN, fn \in BOOLEAN : InitWith(fs, fb, fn)

TrainSteps(p) ==
    \/ TrainResume(p)
    \/ TrainFresh(p)
    \/ TrainLoop(p)
    \/ TrainSchedulerStep(p)
    \/ TrainNextBatch(p)
    \/ TrainForwardBase(p)
    \/ TrainRead(p)
    \/ TrainZeroGrad(p)
    \/ TrainBackward(p)
    \/ TrainOptimizerStep(p)
    \/ TrainAccumulate(p)
    \/ TrainReset(p)
    \/ TrainValCheck(p)
    \/ TrainModelTrain(p)
    \/ TrainCheckpoint(p)
    \/ TrainFinish(p)
    \/ TrainReport(p)

EvalSteps(p) ==
    \/ EvalSelect(p)
    \/ EvalLoop(p)
    \/ EvalNextRelation(p)
    \/ EvalForwardNew(p)
    \/ EvalAccumulate(p)
    \/ EvalReturn(p)

\* The inputs of a call.
TrainCall(p) ==
    \E ti \in 0..MaxTrainIter, vi \in 0..MaxValIter, vs \in 0..MaxValStep,
       te \in 0..MaxValIter, pm \in {None} \cup Paths :
        CallTrain(p, ti, vi, vs, te, pm)

\* The documented run: train_iter = 10, val_step = 5.
ScenarioCall(p) ==
    /\ files = <<>>
    /\ CallTrain(p, 10, 5, 5, 1, None)

EvalCall(p) ==
    \E ei \in 0..MaxEvalIter, ck \in {None} \cup Paths : CallEval(p, ei, ck)

\* One process, one call.
Next ==
    \/ TrainCall("A")
    \/ ScenarioCall("A")
    \/ EvalCall("A")
    \/ TrainSteps("A")
    \/ EvalSteps("A")

Spec == Init /\ [][Next]_vars

\* ------------------------------------------- one process, several calls
\* The call has returned or raised, and its caller goes on: the frames are
\* gone, the model object and the files stay.
Return(p) ==
    /\ pc[p] \in {"done", "failed"}
    /\ log[p].calls < MaxCalls
    /\ op' = [op EXCEPT ![p] = "idle"]
    /\ tr' = [tr EXCEPT ![p] = NoTrain]
    /\ ev' = [ev EXCEPT ![p] = NoEval]
    /\ Goto(p, "idle")
    /\ UNCHANGED <<files, hist, model, out, log>>

SeqTrainCall(p) ==
    \E ti \in 1..2, vi \in 1..2, pm \in {None, SavePath} :
        CallTrain(p, ti, vi, 1, 1, pm)

InitSeq == InitWith(<<>>, TRUE, TRUE)

NextSeq ==
    \/ SeqTrainCall("A")
    \/ TrainSteps("A")
    \/ EvalSteps("A")
    \/ Return("A")

SpecSeq == InitSeq /\ [][NextSeq]_vars

\* ---------------------------------- two processes, one shared save path
\* Two Python processes call train with the same model_name and ckpt_dir;
\* their statements interleave, each file operation (torch.save, torch.load)
\* being one step.
ConcTrainCall(p) ==
    \E pm \in {None, SavePath} : CallTrain(p, 1, 2, 1, 1, pm)

InitConc == InitWith(<<>>, TRUE, TRUE)

NextConc ==
    \E p \in Procs :
        \/ ConcTrainCall(p)
        \/ TrainSteps(p)
        \/ EvalSteps(p)

SpecConc == InitConc /\ [][NextConc]_vars

\* ================================================================ claims
RECURSIVE SumSeq(_)
SumSeq(q) == IF q = <<>> THEN 0 ELSE Head(q) + SumSeq(Tail(q))

\* The validation steps of p whose checkpoint decision (line 164) is taken.
DecidedLen(p) ==
    IF pc[p] \in {"t_model_train", "t_compare"}
    THEN Len(log[p].vals) - 1
    ELSE Len(log[p].vals)

\* The largest of 0 and the first n validation accuracies.
RECURSIVE MaxAcc(_, _)
MaxAcc(vs, n) ==
    IF n = 0 THEN InitBestAcc
    ELSE LET m == MaxAcc(vs, n - 1) IN
         IF FracGt(vs[n].acc, m) THEN vs[n].acc ELSE m

\* The first of the first n validation steps that reached MaxAcc.
BestStep(vs, n) ==
    CHOOSE k \in 1..n :
        /\ FracEq(vs[k].acc, MaxAcc(vs, n))
        /\ \A j \in 1..(k - 1) : ~FracEq(vs[j].acc, MaxAcc(vs, n))

ExceedsEarlier(vs, k) == \A j \in 1..(k - 1) : FracGt(vs[k].acc, vs[j].acc)

\* the quotient a equals n / 10
IsTenths(a, n) == a.num * 10 = n * a.den * AccScale

InUnitInterval(a) == 0 <= a.num /\ a.num <= AccScale * a.den

Ended(p) == pc[p] \in {"done", "failed"}

\* C1 (as stated): a checkpoint is written at a validation step iff its
\* accuracy strictly exceeds all accuracies of the earlier validation steps.
C1_Original ==
    \A p \in Procs : op[p] = "train" =>
        \A k \in 1..DecidedLen(p) :
            log[p].vals[k].wrote <=> ExceedsEarlier(log[p].vals, k)

\* C1 (amended): a checkpoint is written at a validation step iff its accuracy
\* strictly exceeds 0, the initial best_acc, and all accuracies of the earlier
\* validation steps; the number of writes is the number of such steps.
C1_BestCheckpointMonotone ==
    \A p \in Procs : op[p] = "train" =>
        /\ \A k \in 1..DecidedLen(p) :
              log[p].vals[k].wrote <=>
                  /\ FracGt(log[p].vals[k].acc, InitBestAcc)
                  /\ ExceedsEarlier(log[p].vals, k)
        /\ log[p].writes =
              Cardinality({k \in 1..Len(log[p].vals) : log[p].vals[k].wrote})

C1_Witness ==
    \E p \in Procs :
        /\ pc[p] = "done"
        /\ Len(log[p].vals) = 2
        /\ log[p].vals[1].wrote
        /\ ~log[p].vals[2].wrote
        /\ FracEq(log[p].vals[1].acc, log[p].vals[2].acc)

\* C2 (as stated): the checkpoint file train has written holds the parameters
\* and the iteration index of the validation step that saved it.
C2_CheckpointHasIter ==
    \A p \in Procs : (op[p] = "train" /\ log[p].writes > 0) =>
        LET b == load_model(files, SavePath).checkpoint
            k == BestStep(log[p].vals, DecidedLen(p))
        IN  /\ b.state_dict = log[p].vals[k].params
            /\ HasIter(b)
            /\ b.iter = log[p].vals[k].it

\* C3 (as stated): a train call given an existing pretrained checkpoint
\* restores its parameters and starts at the saved iteration plus one; a call
\* without one starts at 0.
C3_ResumeStart ==
    \A p \in Procs : (op[p] = "train" /\ pc[p] # "t_init") =>
        IF tr[p].pretrain_model = None
        THEN /\ tr[p].start_iter = 0
             /\ log[p].first_it \in {-1, 0}
        ELSE log[p].resumed # <<>> =>
                /\ out[p].err # "KeyError"
                /\ HasIter(log[p].resumed[1])
                /\ tr[p].start_iter = log[p].resumed[1].iter + 1
                /\ log[p].first_it \in {-1, tr[p].start_iter}
                /\ (log[p].steps = 0 /\ log[p].loaded = <<>> =>
                       model[p].params = log[p].resumed[1].state_dict)

\* C4 (as stated): a train run of a concrete model whose train_iter >= 1
\* iterations all completed ends with one final pass that loads the checkpoint
\* this run saved at its best validation step, draws test_iter test episodes
\* and reports the test accuracy.
C4_FinalTestPass ==
    \A p \in Procs :
        ( /\ op[p] = "train"
          /\ model[p].has_forward_new
          /\ tr[p].train_iter >= 1
          /\ tr[p].test_iter >= 1
          /\ log[p].tests = 1
          /\ Ended(p) ) =>
            /\ pc[p] = "done"
            /\ out[p].returned
            /\ log[p].writes > 0
            /\ log[p].loaded = <<SavedBundle(
                   log[p].vals[BestStep(log[p].vals, Len(log[p].vals))].params,
                   0)>>
            /\ log[p].episodes.test = tr[p].test_iter

\* The documented run: a fresh train call with train_iter = 10, val_step = 5.
Scenario(p) ==
    /\ op[p] = "train"
    /\ tr[p].train_iter = 10
    /\ tr[p].val_step = 5
    /\ tr[p].pretrain_model = None

ScenarioAccs(p) ==
    /\ Scenario(p)
    /\ DecidedLen(p) = 2
    /\ IsTenths(log[p].vals[1].acc, 6)
    /\ IsTenths(log[p].vals[2].acc, 8)

\* C5 (as stated): in the documented run with validation accuracies 0.6 then
\* 0.8 exactly one checkpoint write occurs, after the second evaluation.
C5_Original ==
    \A p \in Procs : ScenarioAccs(p) =>
        /\ log[p].writes = 1
        /\ ~log[p].vals[1].wrote
        /\ log[p].vals[2].wrote

\* C5 (amended): in the documented run exactly two validation evaluations
\* occur, after the iterations with index 4 and 9 (the 5th and the 10th); with
\* accuracies 0.6 then 0.8 two checkpoint writes occur, one after each.
C5_Scenario ==
    \A p \in Procs : Scenario(p) =>
        /\ Len(log[p].vals) <= 2
        /\ \A k \in 1..Len(log[p].vals) : log[p].vals[k].it = 5 * k - 1
        /\ (log[p].tests > 0 => Len(log[p].vals) = 2)
        /\ (ScenarioAccs(p) =>
              /\ log[p].writes = 2
              /\ log[p].vals[1].wrote
              /\ log[p].vals[2].wrote)

C5_Witness ==
    \E p \in Procs : ScenarioAccs(p) /\ pc[p] = "done" /\ log[p].writes = 2

\* C6: eval called with a checkpoint path that names no file raises
\* "No checkpoint found", draws no episode, runs no iteration and leaves the
\* parameters of the model as they were.
C6_MissingCheckpointEval ==
    \A p \in Procs :
        ( /\ op[p] = "eval"
          /\ ev[p].ckpt # None
          /\ ~IsFile(files, ev[p].ckpt)
          /\ pc[p] # "e_select" ) =>
            /\ pc[p] = "failed"
            /\ out[p].err = "NoCheckpoint"
            /\ ~out[p].returned
            /\ log[p].episodes = [val |-> 0, test |-> 0]
            /\ log[p].fwd_new = 0
            /\ ev[p].it = 0
            /\ model[p].params = InitParams(p)

C6_Witness ==
    \E p \in Procs :
        /\ op[p] = "eval"
        /\ ev[p].ckpt # None
        /\ ~IsFile(files, ev[p].ckpt)
        /\ ev[p].eval_iter >= 1
        /\ model[p].has_forward_new
        /\ pc[p] = "failed"

\* C7: train called with a pretrain_model path that names no file fails with
\* the checkpoint-not-found error after one load attempt, before any batch,
\* optimizer step, validation, checkpoint write or final pass.
C7_MissingCheckpointResume ==
    \A p \in Procs :
        ( /\ op[p] = "train"
          /\ tr[p].pretrain_model # None
          /\ ~IsFile(files, tr[p].pretrain_model)
          /\ pc[p] # "t_init" ) =>
            /\ pc[p] = "failed"
            /\ out[p].err = "NoCheckpoint"
            /\ log[p].loads = 1
            /\ log[p].batches = 0
            /\ log[p].steps = 0
            /\ log[p].vals = <<>>
            /\ log[p].episodes = [val |-> 0, test |-> 0]
            /\ log[p].writes = 0
            /\ log[p].tests = 0
            /\ model[p].params = InitParams(p)

C7_Witness ==
    \E p \in Procs :
        /\ op[p] = "train"
        /\ tr[p].pretrain_model # None
        /\ ~IsFile(files, tr[p].pretrain_model)
        /\ tr[p].train_iter >= 1
        /\ model[p].has_forward_base
        /\ pc[p] = "failed"

\* C8: during a train run every checkpoint file holds one bundle (a write
\* replaces the file), best_acc is the largest of 0 and the validation
\* accuracies so far, and once the run has written, the file at the save path
\* holds the parameters of the validation step that produced best_acc.
C8_SingleBestCheckpoint ==
    \A p \in Procs : op[p] = "train" =>
        LET n == DecidedLen(p) IN
        /\ \A q \in DOMAIN files : Len(files[q]) = 1
        /\ FracEq(tr[p].best_acc, MaxAcc(log[p].vals, n))
        /\ log[p].writes > 0 =>
              LET k == BestStep(log[p].vals, n) IN
              /\ IsFile(files, SavePath)
              /\ log[p].vals[k].wrote
              /\ log[p].vals[k].params = <<p, log[p].calls, log[p].vals[k].it + 1>>
              /\ load_model(files, SavePath).checkpoint.state_dict
                     = log[p].vals[k].params

C8_Witness ==
    \E p \in Procs :
        /\ op[p] = "train"
        /\ Len(log[p].vals) = 2
        /\ DecidedLen(p) = 2
        /\ log[p].writes = 1
        /\ ~log[p].vals[2].wrote
        /\ model[p].params # load_model(files, SavePath).checkpoint.state_dict

\* C9: a direct eval call without ckpt draws its episodes from the validation
\* loader only, eval_iter of them by the end of its loop, and keeps the
\* parameters; with the path of an existing checkpoint it loads the
\* checkpoint's parameters before the first episode and draws from the test
\* loader only, eval_iter episodes by the end of its loop.  The training
\* loader is only the reference loader, and forward_new runs once per episode.
C9_EvalSourceSelection ==
    \A p \in Procs : op[p] = "eval" =>
        LET drawn == log[p].episodes.val + log[p].episodes.test
            loopEnd == pc[p] \in {"e_return", "done"}
        IN
        /\ log[p].refs \subseteq {"train"}
        /\ log[p].batches = 0
        /\ log[p].fwd_new = drawn - (IF pc[p] = "e_forward" \/
                                        (pc[p] = "failed" /\ drawn > ev[p].it)
                                     THEN 1 ELSE 0)
        /\ drawn <= ev[p].eval_iter
        /\ (ev[p].ckpt = None =>
              /\ log[p].episodes.test = 0
              /\ log[p].loads = 0
              /\ model[p].params = InitParams(p)
              /\ (loopEnd => log[p].episodes.val = ev[p].eval_iter))
        /\ (ev[p].ckpt # None /\ IsFile(files, ev[p].ckpt) =>
              /\ log[p].episodes.val = 0
              /\ (pc[p] = "e_select" => drawn = 0)
              /\ (pc[p] # "e_select" =>
                    /\ log[p].loads = 1
                    /\ model[p].params = Head(files[ev[p].ckpt]).state_dict)
              /\ (loopEnd => log[p].episodes.test = ev[p].eval_iter))

C9_Witness ==
    \E p \in Procs :
        /\ op[p] = "eval"
        /\ pc[p] = "done"
        /\ ev[p].ckpt = OtherPath
        /\ log[p].episodes.test = 2
        /\ model[p].params = ExtParams(0)

\* C10 (as stated): every direct eval call of a concrete model, for every
\* eval_iter, returns the sum of the per-episode accuracies divided by the
\* number of episodes, a value in [0,1].
C10_Original ==
    \A p \in Procs :
        ( /\ op[p] = "eval"
          /\ Ended(p)
          /\ model[p].has_forward_new
          /\ (ev[p].ckpt = None \/ IsFile(files, ev[p].ckpt)) ) =>
            /\ out[p].returned
            /\ out[p].ret.den = Len(log[p].rights)
            /\ out[p].ret.num = SumSeq(log[p].rights)
            /\ InUnitInterval(out[p].ret)

\* C10 (amended): for every eval_iter >= 1 a direct eval call of a concrete
\* model returns the sum of the per-episode accuracies divided by eval_iter,
\* a value in [0,1]; for eval_iter = 0 it returns nothing: the division of
\* line 213 raises ZeroDivisionError.
C10_EvalResult ==
    \A p \in Procs :
        ( /\ op[p] = "eval"
          /\ Ended(p)
          /\ model[p].has_forward_new
          /\ (ev[p].ckpt = None \/ IsFile(files, ev[p].ckpt)) ) =>
            IF ev[p].eval_iter >= 1
            THEN /\ out[p].returned
                 /\ Len(log[p].rights) = ev[p].eval_iter
                 /\ out[p].ret.den = ev[p].eval_iter
                 /\ out[p].ret.num = SumSeq(log[p].rights)
                 /\ InUnitInterval(out[p].ret)
            ELSE /\ ~out[p].returned
                 /\ out[p].err = "ZeroDivisionError"

C10_Witness ==
    \E p \in Procs :
        /\ op[p] = "eval"
        /\ out[p].returned
        /\ Len(log[p].rights) = 2
        /\ log[p].rights[1] # log[p].rights[2]
        /\ out[p].ret.num = 1

\* A validation evaluation of p (line 162) is under way or has raised.
InValidation(p) == ev[p].caller = "val"

\* The iterations of p for which the test of line 161 has been taken.
Tested(p) ==
    (tr[p].start_iter..(tr[p].it - 1)) \cup
    (IF InValidation(p) \/ pc[p] \in {"t_model_train", "t_compare"}
     THEN {tr[p].it} ELSE {})

\* The iterations of p after which a validation evaluation was started.
Validated(p) ==
    {log[p].vals[k].it : k \in 1..Len(log[p].vals)} \cup
    (IF InValidation(p) THEN {tr[p].it} ELSE {})

\* The loop of line 140 has run to its end.
LoopEnded(p) ==
    pc[p] \in {"t_finish", "t_report", "done"} \/ ev[p].caller = "test"

\* C11: in a train run with val_step >= 1 a validation evaluation is started
\* after iteration it exactly when (it + 1) % val_step = 0, it being the
\* absolute index (start_iter, start_iter + 1, ...); it uses the validation
\* loader, val_iter episodes and the parameters the iteration's optimizer step
\* produced.  A run whose loop ends has made
\* (start_iter + train_iter) \div val_step - start_iter \div val_step
\* validations, train_iter \div val_step when it is fresh, possibly none.
C11_ValidationCadence ==
    \A p \in Procs : (op[p] = "train" /\ tr[p].val_step >= 1) =>
        LET vs == log[p].vals
            step == tr[p].val_step
            last == tr[p].start_iter + tr[p].train_iter
        IN
        /\ Validated(p) = {i \in Tested(p) : (i + 1) % step = 0}
        /\ \A k \in 1..Len(vs) :
              /\ vs[k].params = <<p, log[p].calls, vs[k].it + 1>>
              /\ k > 1 => vs[k - 1].it < vs[k].it
        /\ IF InValidation(p)
           THEN /\ ev[p].ckpt = None
                /\ ev[p].eval_dataset \in {None, "val"}
                /\ ev[p].eval_iter = tr[p].val_iter
                /\ model[p].params = <<p, log[p].calls, tr[p].it + 1>>
                /\ log[p].episodes.val >= tr[p].val_iter * Len(vs)
                /\ log[p].episodes.val <= tr[p].val_iter * (Len(vs) + 1)
           ELSE log[p].episodes.val = tr[p].val_iter * Len(vs)
        /\ LoopEnded(p) =>
              /\ Len(vs) = (last \div step) - (tr[p].start_iter \div step)
              /\ (tr[p].pretrain_model = None =>
                    Len(vs) = tr[p].train_iter \div step)

C11_Witness ==
    \E p \in Procs :
        /\ op[p] = "train"
        /\ pc[p] = "done"
        /\ tr[p].start_iter = 1
        /\ tr[p].train_iter = 2
        /\ tr[p].val_step = 2
        /\ Len(log[p].vals) = 1
        /\ log[p].vals[1].it = 1

\* Where p stands in the body of the loop of line 140: "before" the optimizer
\* step of the iteration it has begun, "after" it, or "between" iterations
\* (before the first, at the head of the loop, after the last).
Phase(p) ==
    CASE pc[p] \in {"t_batch", "t_forward", "t_read", "t_zero", "t_backward",
                    "t_step"} -> "before"
      [] pc[p] = "failed" /\ ev[p].caller = None
           /\ out[p].err = "NotImplementedError" -> "before"
      [] pc[p] \in {"t_accum", "t_reset", "t_valcheck", "t_model_train",
                    "t_compare"} -> "after"
      [] pc[p] = "failed" /\ ev[p].caller = None
           /\ out[p].err = "ZeroDivisionError" -> "after"
      [] InValidation(p) -> "after"
      [] OTHER -> "between"

WindowStart(it, val_step, start_iter) ==
    LET w == (it \div val_step) * val_step IN
    IF w > start_iter THEN w ELSE start_iter

\* C13 (as stated): the progress line of line 153, printed in iteration it,
\* averages over the iterations of the current validation window, from the
\* window's first iteration through it, each counted once; the divisor
\* iter_sample is never 0.
C13_RunningWindow ==
    \A p \in Procs :
        (op[p] = "train" /\ pc[p] = "t_reset" /\ tr[p].val_step >= 1) =>
            /\ tr[p].iter_sample >= 1
            /\ tr[p].iter_sample =
                  tr[p].it - WindowStart(tr[p].it, tr[p].val_step,
                                         tr[p].start_iter) + 1

\* C14: a train run of a model that does not override forward_base, with
\* train_iter >= 1, takes no optimizer step, runs no validation and no final
\* pass, writes no checkpoint and does not return: once its first iteration
\* has fetched its batch it ends with NotImplementedError.  A direct eval call
\* of a model that does not override forward_new, with eval_iter >= 1 and a
\* loadable checkpoint if one is named, ends with NotImplementedError in its
\* first episode and returns no accuracy.
C14_AbstractForward ==
    \A p \in Procs :
        /\ ( /\ op[p] = "train"
             /\ ~model[p].has_forward_base
             /\ tr[p].train_iter >= 1 ) =>
               /\ log[p].steps = 0
               /\ log[p].batches <= 1
               /\ log[p].vals = <<>>
               /\ log[p].writes = 0
               /\ log[p].tests = 0
               /\ log[p].episodes = [val |-> 0, test |-> 0]
               /\ tr[p].it = tr[p].start_iter
               /\ ~out[p].returned
               /\ pc[p] # "done"
               /\ (pc[p] = "failed" =>
                     IF log[p].batches = 1
                     THEN /\ out[p].err = "NotImplementedError"
                          /\ tr[p].sched = 1
                     ELSE /\ out[p].err \in {"NoCheckpoint", "KeyError"}
                          /\ tr[p].pretrain_model # None)
        /\ ( /\ op[p] = "eval"
             /\ ~model[p].has_forward_new
             /\ ev[p].eval_iter >= 1
             /\ (ev[p].ckpt = None \/ IsFile(files, ev[p].ckpt)) ) =>
               LET drawn == log[p].episodes.val + log[p].episodes.test IN
               /\ log[p].fwd_new = 0
               /\ ev[p].it = 0
               /\ drawn <= 1
               /\ ~out[p].returned
               /\ pc[p] # "done"
               /\ (pc[p] = "failed" =>
                     /\ out[p].err = "NotImplementedError"
                     /\ drawn = 1)

C14_Witness ==
    \E p \in Procs :
        /\ op[p] = "train"
        /\ ~model[p].has_forward_base
        /\ tr[p].train_iter = 2
        /\ tr[p].val_step = 1
        /\ pc[p] = "failed"
        /\ out[p].err = "NotImplementedError"
        /\ log[p].batches = 1

\* No call is in progress.
AllAtRest == \A p \in Procs : pc[p] \in {"idle", "done", "failed"}

\* C15 (as stated): after any sequence of train runs on one save path the
\* file holds the checkpoint of the highest validation accuracy among all
\* those written, and no run replaces a checkpoint by one of lower accuracy.
C15_BestAcrossRuns ==
    (AllAtRest /\ hist # <<>>) =>
        /\ \E i \in 1..Len(hist) :
              /\ load_model(files, SavePath).checkpoint.state_dict
                    = hist[i].params
              /\ \A j \in 1..Len(hist) : ~FracGt(hist[j].acc, hist[i].acc)
        /\ \A i, j \in 1..Len(hist) :
              i < j => ~FracGt(hist[i].acc, hist[j].acc)

\* C16: with two train runs interleaved on one save path every write replaces
\* the whole file, whatever the accuracy of the checkpoint it destroys: the
\* file holds exactly the bundle of the latest write, and a final test pass
\* loads whatever a write of either run left there.
C16_WholeFileRace ==
    /\ IsFile(files, SavePath) <=> hist # <<>>
    /\ hist # <<>> =>
          files[SavePath] = <<SavedBundle(hist[Len(hist)].params, 0)>>
    /\ \A p \in Procs : log[p].loaded # <<>> =>
          \E i \in 1..Len(hist) :
              /\ log[p].loaded[1] = SavedBundle(hist[i].params, 0)
              /\ log[p].tests = 1

\* One run's write destroyed the other's better checkpoint, and the run that
\* had written the better one tested and returned with the other's parameters.
C16_Witness ==
    \E p, q \in Procs :
        \E i, j \in 1..Len(hist) :
            /\ p # q
            /\ i < j
            /\ j = Len(hist)
            /\ hist[i].by = p
            /\ hist[j].by = q
            /\ FracGt(hist[i].acc, hist[j].acc)
            /\ load_model(files, SavePath).checkpoint.state_dict
                  = hist[j].params
            /\ pc[p] = "done"
            /\ log[p].loaded = <<SavedBundle(hist[j].params, 0)>>
            /\ model[p].params = hist[j].params

\* C17 (as stated): when train has returned, the parameters of the model are
\* those the final test pass loaded from the checkpoint file, which are the
\* parameters of this run's best validation step, and not those of the last
\* training iteration unless that iteration was the best validation step.
C17_ParamsAfterTraining ==
    \A p \in Procs :
        (op[p] = "train" /\ pc[p] = "done" /\ tr[p].train_iter >= 1) =>
        /\ log[p].loaded # <<>>
        /\ model[p].params = log[p].loaded[1].state_dict
        /\ log[p].writes > 0
        /\ LET k == BestStep(log[p].vals, Len(log[p].vals))
               last == tr[p].start_iter + tr[p].train_iter
           IN  /\ model[p].params = log[p].vals[k].params
               /\ (log[p].vals[k].it + 1 # last =>
                     model[p].params # <<p, log[p].calls, last>>)

====
